---- MODULE Spec2Model ----
(***************************************************************************)
(* TimeTree (src/TimeTree.py): rooted phylogenetic time trees.             *)
(*                                                                         *)
(* The model follows one Tree object from the call of Tree.__init__ on an  *)
(* argument (a Newick string, an open file, or a Node) through             *)
(* loadFromString (tokenizer loop, recursive-descent parser, time/height   *)
(* pass) to the calls a client makes on the finished tree: sort,           *)
(* root.getNewick, and the construction of a second Tree from the emitted  *)
(* Newick text.                                                            *)
(*                                                                         *)
(* Conventions.                                                            *)
(*  - A Python str is a sequence of one-character strings.                 *)
(*  - An attribute that may hold None is a sequence of length 0 (None) or  *)
(*    1 (the value).                                                       *)
(*  - Node objects live in an arena `nodes` (a sequence of records); a     *)
(*    node reference is its index, 0 is the None reference.                *)
(*  - Branch lengths, times and heights are integers: float arithmetic is  *)
(*    exact on the values the bounded inputs produce, and the "{}" format  *)
(*    of an integral float n is the decimal numeral of n followed by ".0". *)
(*  - A raised exception is the record `err`, with the source line of the  *)
(*    raise (or of the failing expression).                                *)
(***************************************************************************)
EXTENDS Integers, Sequences, FiniteSets, TLC

VARIABLES
    pc,         \* position in the client's use of the Tree object
    arg,        \* the argument of Tree.__init__
    string,     \* loadFromString's parameter
    idx,        \* tokenizer: idx            (src/TimeTree.py:225)
    tokenList,  \* tokenizer: tokenList      (src/TimeTree.py:226)
    valueList,  \* tokenizer: valueList      (src/TimeTree.py:227)
    ctx,        \* parser: the ParseContext's idx, None before line 317
    tree,       \* which Tree object the client holds: 1, then 2 (rebuilt)
    root,       \* the Tree's root attribute, 0 while it is not assigned
    nodes,      \* the Node objects created so far
    origin,     \* the root's `origin` attribute, None while it is not set
    err,        \* the exception raised, if any
    newick,     \* the str returned by the last root.getNewick(), if any
    call,       \* the last client call on the tree and its argument
    built,      \* the arena as it was when construction finished
    first       \* the first tree, once a second one is built from its Newick

vars == <<pc, arg, string, idx, tokenList, valueList, ctx, tree, root, nodes,
          origin, err, newick, call, built, first>>

----------------------------------------------------------------------------
\* Bounds of the model.

\* Longest raw string enumerated as input (every string over Alphabet).
MaxLen == 3
\* Largest tree (in nodes) among the well-formed Newick inputs.
MaxWritten == 4
\* Largest tree (in nodes) among the Node inputs.
MaxNodes == 5
\* Most lines after the first in a file input.
MaxLines == 2

----------------------------------------------------------------------------
\* Values.

None == <<>>
Some(x) == <<x>>
Val(o) == o[1]

NoError == [kind |-> "None", line |-> 0, pos |-> 0, token |-> "", value |-> <<>>]
Raise(kind, line, pos, token, value) ==
    [kind |-> kind, line |-> line, pos |-> pos, token |-> token, value |-> value]

Max(a, b) == IF b > a THEN b ELSE a

\* str.strip(): the whitespace characters of the model.
Whitespace == {" ", "\n", "\t"}

RECURSIVE LStrip(_)
LStrip(s) == IF s # <<>> /\ Head(s) \in Whitespace THEN LStrip(Tail(s)) ELSE s

RECURSIVE RStrip(_)
RStrip(s) ==
    IF s # <<>> /\ s[Len(s)] \in Whitespace
    THEN RStrip(SubSeq(s, 1, Len(s) - 1))
    ELSE s

Strip(s) == RStrip(LStrip(s))

\* str.lower() on the letters that occur in the model's inputs.
UpperCase == {"N", "E", "X", "U", "S", "T", "R"}
LowerOf(c) ==
    CASE c = "N" -> "n" [] c = "E" -> "e" [] c = "X" -> "x" [] c = "U" -> "u"
      [] c = "S" -> "s" [] c = "T" -> "t" [] c = "R" -> "r" [] OTHER -> c
Lower(s) == [i \in 1..Len(s) |-> LowerOf(s[i])]

\* str.startswith(prefix)
StartsWith(s, prefix) ==
    /\ Len(prefix) <= Len(s)
    /\ \A i \in 1..Len(prefix) : s[i] = prefix[i]

\* str.find(c): the 0-based index of the first occurrence, -1 if none.
Find(s, c) ==
    IF \E i \in 1..Len(s) : s[i] = c
    THEN (CHOOSE i \in 1..Len(s) : s[i] = c /\ \A j \in 1..(i - 1) : s[j] # c) - 1
    ELSE -1

----------------------------------------------------------------------------
\* Tokenizer (loadFromString, lines 209-256).

Letters == {"a", "b", "c", "d", "e", "f", "g", "h", "i", "j", "k", "l", "m",
            "n", "o", "p", "q", "r", "s", "t", "u", "v", "w", "x", "y", "z",
            "A", "B", "C", "D", "E", "F", "G", "H", "I", "J", "K", "L", "M",
            "N", "O", "P", "Q", "R", "S", "T", "U", "V", "W", "X", "Y", "Z"}
Digits == {"0", "1", "2", "3", "4", "5", "6", "7", "8", "9"}
\* The character class [a-zA-Z0-9_.-]
BareChars == Letters \cup Digits \cup {"_", ".", "-"}

\* The rule table: token name, kind of pattern, and the pattern's literal
\* (for a quoted rule, its quote character).
tokens == <<
    [name |-> "LPAREN", kind |-> "lit",    text |-> <<"(">>],
    [name |-> "RPAREN", kind |-> "lit",    text |-> <<")">>],
    [name |-> "COLON",  kind |-> "lit",    text |-> <<":">>],
    [name |-> "STRING", kind |-> "quoted", text |-> <<"\"">>],
    [name |-> "STRING", kind |-> "quoted", text |-> <<"'">>],
    [name |-> "STRING", kind |-> "bare",   text |-> <<>>],
    [name |-> "OPENA",  kind |-> "lit",    text |-> <<"[", "&">>],
    [name |-> "EQUALS", kind |-> "lit",    text |-> <<"=">>],
    [name |-> "CLOSEA", kind |-> "lit",    text |-> <<"]">>],
    [name |-> "COMMA",  kind |-> "lit",    text |-> <<",">>],
    [name |-> "SEMI",   kind |-> "lit",    text |-> <<";">>] >>

\* Length of the longest run of BareChars in s from 0-based position i.
RECURSIVE BareRun(_, _)
BareRun(s, i) ==
    IF i < Len(s) /\ s[i + 1] \in BareChars THEN 1 + BareRun(s, i + 1) ELSE 0

\* re.match(tokens[k][1], string[i:]): the length of the match, 0 for no
\* match (no pattern of the table matches the empty string).
MatchLen(k, s, i) ==
    LET r == tokens[k] IN
    CASE r.kind = "lit" ->
            IF /\ i + Len(r.text) <= Len(s)
               /\ \A j \in 1..Len(r.text) : s[i + j] = r.text[j]
            THEN Len(r.text) ELSE 0
      [] r.kind = "quoted" ->
            IF /\ i < Len(s)
               /\ s[i + 1] = r.text[1]
               /\ \E j \in (i + 2)..Len(s) : s[j] = r.text[1]
            THEN (CHOOSE j \in (i + 2)..Len(s) :
                     /\ s[j] = r.text[1]
                     /\ \A m \in (i + 2)..(j - 1) : s[m] # r.text[1]) - i
            ELSE 0
      [] r.kind = "bare" -> BareRun(s, i)

\* The first rule of the table that matches at i (the for loop of line 233
\* with its break), 0 if none does.
FirstMatch(s, i) ==
    IF \E k \in 1..Len(tokens) : MatchLen(k, s, i) > 0
    THEN CHOOSE k \in 1..Len(tokens) :
            /\ MatchLen(k, s, i) > 0
            /\ \A m \in 1..(k - 1) : MatchLen(m, s, i) = 0
    ELSE 0

\* Lines 241-247: the value of a STRING token from the matched text.
StringValue(value) ==
    IF Len(value) > 2
    THEN IF value[1] = "\"" /\ value[Len(value)] = "\""
         THEN SubSeq(value, 2, Len(value) - 1)
         ELSE IF value[1] = "'" /\ value[Len(value)] = "'"
              THEN SubSeq(value, 2, Len(value) - 1)
              ELSE value
    ELSE value

\* LexIter with the raise of line 256 lost: a character that no rule
\* matches is stepped over.
LexIterSkipping(s, lx) ==
    LET k == FirstMatch(s, lx.idx) IN
    IF k = 0
    THEN [lx EXCEPT !.idx = lx.idx + 1]
    ELSE LET n == MatchLen(k, s, lx.idx)
             text == SubSeq(s, lx.idx + 1, lx.idx + n)
         IN [lx EXCEPT
                !.idx = lx.idx + n,
                !.tokenList = Append(lx.tokenList, tokens[k].name),
                !.valueList = Append(lx.valueList,
                                 IF tokens[k].name = "STRING"
                                 THEN Some(StringValue(text))
                                 ELSE None)]

\* One iteration of the while loop of line 229 on the tokenizer's locals.
LexIter(s, lx) ==
    LET k == FirstMatch(s, lx.idx) IN
    IF k = 0
    THEN [lx EXCEPT !.err =
            Raise("ParseError", 256, lx.idx, "", <<s[lx.idx + 1]>>)]
    ELSE LET n == MatchLen(k, s, lx.idx)
             text == SubSeq(s, lx.idx + 1, lx.idx + n)
         IN [lx EXCEPT
                !.idx = lx.idx + n,
                !.tokenList = Append(lx.tokenList, tokens[k].name),
                !.valueList = Append(lx.valueList,
                                 IF tokens[k].name = "STRING"
                                 THEN Some(StringValue(text))
                                 ELSE None)]

----------------------------------------------------------------------------
\* float(str) and "{}".format(float) on integral values.

DigitSeq == <<"0", "1", "2", "3", "4", "5", "6", "7", "8", "9">>
DigitVal(c) == (CHOOSE i \in 1..Len(DigitSeq) : DigitSeq[i] = c) - 1

\* The value of a sequence of digits.
RECURSIVE DigitsVal(_)
DigitsVal(ds) ==
    IF ds = <<>> THEN 0
    ELSE 10 * DigitsVal(SubSeq(ds, 1, Len(ds) - 1)) + DigitVal(ds[Len(ds)])

\* float(s): [ok |-> TRUE, val |-> n], or ok = FALSE where Python raises
\* ValueError.  The numerals are [sign] digits ["." zeros] (surrounding
\* whitespace ignored).  Exponents, "inf", "nan" and fractions other than
\* zeros are spelled with characters that no branch length of the model's
\* inputs contains; the only "." in a branch length comes from Format.
Float(s) ==
    LET t == Strip(s)
        signed == t # <<>> /\ t[1] \in {"-", "+"}
        body == IF signed THEN Tail(t) ELSE t
        dot == Find(body, ".")
        whole == IF dot = -1 THEN body ELSE SubSeq(body, 1, dot)
        frac == IF dot = -1 THEN <<>> ELSE SubSeq(body, dot + 2, Len(body))
        wellFormed ==
            /\ whole # <<>>
            /\ \A i \in 1..Len(whole) : whole[i] \in Digits
            /\ \A i \in 1..Len(frac) : frac[i] = "0"
    IN IF wellFormed
       THEN [ok |-> TRUE,
             val |-> IF signed /\ t[1] = "-" THEN 0 - DigitsVal(whole)
                     ELSE DigitsVal(whole)]
       ELSE [ok |-> FALSE, val |-> 0]

\* The decimal numeral of a natural number.
RECURSIVE Numeral(_)
Numeral(n) ==
    IF n < 10 THEN <<DigitSeq[n + 1]>>
    ELSE Numeral(n \div 10) \o <<DigitSeq[(n % 10) + 1]>>

\* "{}".format(x) for an integral float x.
Format(n) ==
    IF n < 0 THEN <<"-">> \o Numeral(0 - n) \o <<".", "0">>
    ELSE Numeral(n) \o <<".", "0">>

----------------------------------------------------------------------------
\* Node (lines 17-105).

\* Node.__init__.  `origin` is not among the attributes it sets; the root's
\* origin is the variable `origin`.  cladeSize is the `_cladeSize` attribute
\* that sort attaches.
Node ==
    [height |-> None, time |-> None, branchLength |-> None, parent |-> 0,
     children |-> <<>>, annotations |-> <<>>, label |-> None,
     cladeSize |-> None]

\* parent.addChild(newChild) on the arena ns.
addChild(ns, parent, newChild) ==
    [ns EXCEPT ![parent].children = Append(@, newChild),
               ![newChild].parent = parent]

\* node.getAllChildren(): the node and its descendants in preorder.
RECURSIVE getAllChildren(_, _)
RECURSIVE ExtendAllChildren(_, _, _)
getAllChildren(ns, n) == <<n>> \o ExtendAllChildren(ns, ns[n].children, 1)
ExtendAllChildren(ns, cs, i) ==
    IF i > Len(cs) THEN <<>>
    ELSE getAllChildren(ns, cs[i]) \o ExtendAllChildren(ns, cs, i + 1)

\* node.computeTimes(offset).
RECURSIVE computeTimes(_, _, _)
RECURSIVE ComputeChildTimes(_, _, _, _)
computeTimes(ns, n, offset) ==
    LET t == offset + Val(ns[n].branchLength) IN
    ComputeChildTimes([ns EXCEPT ![n].time = Some(t)], ns[n].children, 1, t)
ComputeChildTimes(ns, cs, i, t) ==
    IF i > Len(cs) THEN ns
    ELSE ComputeChildTimes(computeTimes(ns, cs[i], t), cs, i + 1, t)

\* annotations[key] = value on a dict kept as a sequence of <<key, value>>
\* pairs in insertion order: an existing key keeps its place.  (The order
\* in which a Python 2 dict is iterated is fixed by the hashes of its keys;
\* the order of insertion stands for it here.)
DictSet(d, key, value) ==
    IF \E i \in 1..Len(d) : d[i][1] = key
    THEN [i \in 1..Len(d) |-> IF d[i][1] = key THEN <<key, value>> ELSE d[i]]
    ELSE Append(d, <<key, value>>)

----------------------------------------------------------------------------
\* Parser (ParseContext, lines 184-201; rules, lines 260-319).  The parser
\* state p holds the ParseContext (tokenList, valueList, idx), the Node
\* objects built so far and the exception raised, if any; a rule entered
\* with an exception pending does nothing (the exception propagates).

\* ctx.acceptToken(token, manditory).  An idx past the end of tokenList
\* makes line 191 raise IndexError.  At line 198 the name ParseError is
\* looked up from inside a method of the nested class ParseContext, where
\* the class attribute Tree.ParseError is not in scope: NameError.
acceptToken(p, token, manditory) ==
    IF p.idx >= Len(p.tokenList)
    THEN [ret |-> FALSE,
          p |-> [p EXCEPT !.err = Raise("IndexError", 191, -1, "", <<>>)]]
    ELSE IF p.tokenList[p.idx + 1] = token
    THEN [ret |-> TRUE, p |-> [p EXCEPT !.idx = p.idx + 1]]
    ELSE IF ~manditory
    THEN [ret |-> FALSE, p |-> p]
    ELSE [ret |-> FALSE,
          p |-> [p EXCEPT !.err = Raise("NameError", 198, -1, "", <<>>)]]

\* ctx.getLastValue()
getLastValue(p) == Val(p.valueList[p.idx])

ruleL(node, p) ==
    IF p.err # NoError THEN p ELSE
    LET a == acceptToken(p, "STRING", FALSE) IN
    IF a.ret
    THEN [a.p EXCEPT !.nodes[node].label = Some(getLastValue(a.p))]
    ELSE a.p

ruleC(node, p) ==
    IF p.err # NoError THEN p ELSE
    LET a1 == acceptToken(p, "STRING", TRUE) IN
    IF ~a1.ret THEN a1.p ELSE
    LET key == getLastValue(a1.p)
        a2 == acceptToken(a1.p, "EQUALS", TRUE)
    IN
    IF ~a2.ret THEN a2.p ELSE
    LET a3 == acceptToken(a2.p, "STRING", TRUE) IN
    IF ~a3.ret THEN a3.p ELSE
    LET value == getLastValue(a3.p) IN
    [a3.p EXCEPT !.nodes[node].annotations = DictSet(@, key, value)]

RECURSIVE ruleD(_, _)
ruleD(node, p) ==
    IF p.err # NoError THEN p ELSE
    LET a == acceptToken(p, "COMMA", FALSE) IN
    IF a.ret THEN ruleD(node, ruleC(node, a.p)) ELSE a.p

ruleA(node, p) ==
    IF p.err # NoError THEN p ELSE
    LET a == acceptToken(p, "OPENA", FALSE) IN
    IF a.ret
    THEN LET p2 == ruleD(node, ruleC(node, a.p)) IN
         IF p2.err # NoError THEN p2
         ELSE acceptToken(p2, "CLOSEA", TRUE).p
    ELSE a.p

ruleB(node, p) ==
    IF p.err # NoError THEN p ELSE
    LET a == acceptToken(p, "COLON", FALSE) IN
    IF a.p.err # NoError THEN a.p ELSE
    IF a.ret
    THEN LET b == acceptToken(a.p, "STRING", TRUE) IN
         IF ~b.ret THEN b.p ELSE
         LET f == Float(getLastValue(b.p)) IN
         IF f.ok
         THEN [b.p EXCEPT !.nodes[node].branchLength = Some(f.val)]
         ELSE [b.p EXCEPT !.err = Raise("ValueError", 313, -1, "", <<>>)]
    ELSE [a.p EXCEPT !.nodes[node].branchLength = Some(1)]

RECURSIVE ruleN(_, _)
RECURSIVE ruleS(_, _)
RECURSIVE ruleQ(_, _)

\* ruleN(parent, ctx, depth); the Node it creates is Len(p.nodes) + 1.
ruleN(parent, p) ==
    IF p.err # NoError THEN p ELSE
    LET node == Len(p.nodes) + 1
        created == Append(p.nodes, Node)
        p0 == [p EXCEPT !.nodes = IF parent # 0
                                  THEN addChild(created, parent, node)
                                  ELSE created]
    IN ruleB(node, ruleA(node, ruleL(node, ruleS(node, p0))))

ruleS(node, p) ==
    IF p.err # NoError THEN p ELSE
    LET a == acceptToken(p, "LPAREN", FALSE) IN
    IF a.ret
    THEN LET p2 == ruleQ(node, ruleN(node, a.p)) IN
         IF p2.err # NoError THEN p2
         ELSE acceptToken(p2, "RPAREN", TRUE).p
    ELSE a.p

ruleQ(node, p) ==
    IF p.err # NoError THEN p ELSE
    LET a == acceptToken(p, "COMMA", FALSE) IN
    IF a.ret THEN ruleQ(node, ruleN(node, a.p)) ELSE a.p

\* Lines 317-319: ctx = ParseContext(...); root = ruleN(None, ctx, 0);
\* ctx.acceptToken("SEMI", manditory=True).
ParseTokens(tl, vl) ==
    LET p0 == [tokenList |-> tl, valueList |-> vl, idx |-> 0,
               nodes |-> <<>>, err |-> NoError]
        p1 == ruleN(0, p0)
    IN IF p1.err # NoError THEN p1 ELSE acceptToken(p1, "SEMI", TRUE).p

\* Lines 325-327: maxTime over root.getAllChildren(), starting from 0.0.
RECURSIVE MaxTimeFrom(_, _, _, _)
MaxTimeFrom(ns, order, i, maxTime) ==
    IF i > Len(order) THEN maxTime
    ELSE MaxTimeFrom(ns, order, i + 1, Max(maxTime, Val(ns[order[i]].time)))

\* ComputeHeights with maxTime taken from the root alone instead of from
\* every node of the tree.
ComputeHeightsRootOnly(ns) ==
    LET timed == computeTimes(ns, 1, 0)
        order == getAllChildren(timed, 1)
        maxTime == MaxTimeFrom(timed, <<1>>, 1, 0)
    IN [n \in 1..Len(timed) |->
          IF \E i \in 1..Len(order) : order[i] = n
          THEN [timed[n] EXCEPT !.height = Some(maxTime - Val(timed[n].time))]
          ELSE timed[n]]

\* Lines 323-330: times, then heights, of the tree rooted at node 1.
ComputeHeights(ns) ==
    LET timed == computeTimes(ns, 1, 0)
        order == getAllChildren(timed, 1)
        maxTime == MaxTimeFrom(timed, order, 1, 0)
    IN [n \in 1..Len(timed) |->
          IF \E i \in 1..Len(order) : order[i] = n
          THEN [timed[n] EXCEPT !.height = Some(maxTime - Val(timed[n].time))]
          ELSE timed[n]]

----------------------------------------------------------------------------
\* Node.getNewick (lines 63-97) and Tree.sort (lines 158-173).

\* The annotation block of line 78-87, items in the dict's order.
RECURSIVE AnnotationItems(_, _)
AnnotationItems(d, i) ==
    IF i > Len(d) THEN <<>>
    ELSE (IF i > 1 THEN <<",">> ELSE <<>>)
         \o d[i][1] \o <<"=", "\"">> \o d[i][2] \o <<"\"">>
         \o AnnotationItems(d, i + 1)

\* node.getNewick() with the root's origin attribute org: the text, or the
\* exception.  A root without the origin attribute raises AttributeError at
\* line 90; a height that is None raises TypeError at line 95 (or 91).
RECURSIVE getNewick(_, _, _)
RECURSIVE JoinNewick(_, _, _, _)
getNewick(ns, n, org) ==
    LET nd == ns[n]
        sub == IF Len(nd.children) > 0
               THEN JoinNewick(ns, nd.children, 1, org)
               ELSE [text |-> <<>>, err |-> NoError]
        open == IF Len(nd.children) > 0 THEN <<"(">> ELSE <<>>
        close == IF Len(nd.children) > 0 THEN <<")">> ELSE <<>>
        label == IF nd.label # None THEN Val(nd.label) ELSE <<>>
        annot == IF Len(nd.annotations) > 0
                 THEN <<"[", "&">> \o AnnotationItems(nd.annotations, 1) \o <<"]">>
                 ELSE <<>>
        head == open \o sub.text \o close \o label \o annot
    IN
    IF sub.err # NoError THEN sub
    ELSE IF nd.parent = 0
    THEN IF org = None
         THEN [text |-> <<>>, err |-> Raise("AttributeError", 90, -1, "", <<>>)]
         ELSE IF nd.height = None
         THEN [text |-> <<>>, err |-> Raise("TypeError", 91, -1, "", <<>>)]
         ELSE [text |-> head \o <<":">> \o Format(Val(org) - Val(nd.height)),
               err |-> NoError]
    ELSE IF ns[nd.parent].height = None \/ nd.height = None
    THEN [text |-> <<>>, err |-> Raise("TypeError", 95, -1, "", <<>>)]
    ELSE [text |-> head \o <<":">>
                   \o Format(Val(ns[nd.parent].height) - Val(nd.height)),
          err |-> NoError]
JoinNewick(ns, cs, i, org) ==
    IF i > Len(cs) THEN [text |-> <<>>, err |-> NoError]
    ELSE LET one == getNewick(ns, cs[i], org) IN
         IF one.err # NoError THEN one
         ELSE LET rest == JoinNewick(ns, cs, i + 1, org) IN
              IF rest.err # NoError THEN rest
              ELSE [text |-> (IF i > 1 THEN <<",">> ELSE <<>>)
                             \o one.text \o rest.text,
                    err |-> NoError]

\* InsertPos of a sort that is not stable: x goes before the elements
\* equal to it.
InsertPosBeforeEqual(ns, out, x, reverse) ==
    Cardinality({i \in 1..Len(out) :
        IF reverse
        THEN Val(ns[out[i]].cladeSize) > Val(ns[x].cladeSize)
        ELSE Val(ns[out[i]].cladeSize) < Val(ns[x].cladeSize)})

\* Where x goes when it is inserted into the sorted sequence out: after the
\* elements that do not sort after it (list.sort is stable, also with
\* reverse=True).
InsertPos(ns, out, x, reverse) ==
    Cardinality({i \in 1..Len(out) :
        IF reverse
        THEN Val(ns[out[i]].cladeSize) >= Val(ns[x].cladeSize)
        ELSE Val(ns[out[i]].cladeSize) <= Val(ns[x].cladeSize)})

\* listSort keeping one child per clade size (children collected in a
\* mapping keyed by the sort key): a child that ties with an earlier one is
\* lost.
RECURSIVE listSortOnePerKey(_, _, _, _, _)
listSortOnePerKey(ns, cs, i, out, reverse) ==
    IF i > Len(cs) THEN out
    ELSE LET k == InsertPos(ns, out, cs[i], reverse) IN
         IF k > 0 /\ ns[out[k]].cladeSize = ns[cs[i]].cladeSize
         THEN listSortOnePerKey(ns, cs, i + 1, out, reverse)
         ELSE listSortOnePerKey(ns, cs, i + 1,
                  SubSeq(out, 1, k) \o <<cs[i]>> \o SubSeq(out, k + 1, Len(out)),
                  reverse)

\* children.sort(key=lambda child: child._cladeSize, reverse=reverse)
RECURSIVE listSort(_, _, _, _, _)
listSort(ns, cs, i, out, reverse) ==
    IF i > Len(cs) THEN out
    ELSE LET k == InsertPos(ns, out, cs[i], reverse) IN
         listSort(ns, cs, i + 1,
                  SubSeq(out, 1, k) \o <<cs[i]>> \o SubSeq(out, k + 1, Len(out)),
                  reverse)

\* sortSubTree(node): the arena after the call and the value returned.
RECURSIVE sortSubTree(_, _, _)
RECURSIVE SortChildren(_, _, _, _, _)
sortSubTree(ns, node, increasing) ==
    LET r == SortChildren(ns, ns[node].children, 1, 1, increasing) IN
    [ns |-> [r.ns EXCEPT ![node].children =
                listSort(r.ns, r.ns[node].children, 1, <<>>, ~increasing)],
     size |-> r.size]
SortChildren(ns, cs, i, thisCladeSize, increasing) ==
    IF i > Len(cs) THEN [ns |-> ns, size |-> thisCladeSize]
    ELSE LET r == sortSubTree(ns, cs[i], increasing)
             ns2 == [r.ns EXCEPT ![cs[i]].cladeSize = Some(r.size)]
         IN SortChildren(ns2, cs, i + 1, thisCladeSize + r.size, increasing)

----------------------------------------------------------------------------
\* The arguments Tree.__init__ is called with.

\* Raw strings: every string of at most MaxLen characters over Alphabet.
Alphabet == {"(", ")", ",", ":", ";", "a", "1", "\"", "'", "[", "&", "=", "]", " "}
RawStrings == UNION {[1..n -> Alphabet] : n \in 0..MaxLen}

\* Tree shapes: the parent of each node, nodes numbered in preorder.
Shapes(n) ==
    {p \in [1..n -> 0..(n - 1)] :
        /\ p[1] = 0
        /\ \A i \in 2..n :
              /\ p[i] \in 1..(i - 1)
              /\ \A j \in (p[i] + 1)..(i - 1) : p[j] >= p[i]}

\* The children of node i of shape p, in order.
RECURSIVE AscendingSeq(_)
AscendingSeq(S) ==
    IF S = {} THEN <<>>
    ELSE LET m == CHOOSE x \in S : \A y \in S : x <= y
         IN <<m>> \o AscendingSeq(S \ {m})
KidsOf(p, i) == AscendingSeq({j \in DOMAIN p : p[j] = i})

\* What a well-formed input writes after a node's subtree: nothing; a bare
\* label and a branch length; a quoted label, an annotation and a negative
\* branch length.
Decor == <<
    <<>>,
    <<"a", ":", "2">>,
    <<"'", "b", " ", "c", "'", "[", "&", "k", "=", "v", "]", ":", "-", "1">> >>

RECURSIVE WriteNode(_, _, _)
RECURSIVE WriteKids(_, _, _, _)
WriteNode(p, d, i) ==
    LET kids == KidsOf(p, i) IN
    (IF kids # <<>> THEN <<"(">> \o WriteKids(p, d, kids, 1) \o <<")">> ELSE <<>>)
    \o Decor[d[i]]
WriteKids(p, d, kids, k) ==
    IF k > Len(kids) THEN <<>>
    ELSE (IF k > 1 THEN <<",">> ELSE <<>>)
         \o WriteNode(p, d, kids[k]) \o WriteKids(p, d, kids, k + 1)

\* Well-formed Newick strings: every shape of at most MaxWritten nodes, every
\* node decorated in each of the ways of Decor.
WellFormed ==
    UNION {{WriteNode(p, d, 1) \o <<";">> :
               p \in Shapes(n), d \in [1..n -> 1..Len(Decor)]} : n \in 1..MaxWritten}

\* The examples of malformed input: "(a,b;" and "a:xyz;".
Examples ==
    {<<"(", "a", ",", "b", ";">>, <<"a", ":", "x", "y", "z", ";">>}

\* Lines of a file.
LineSet ==
    {<<"#", "N", "E", "X", "U", "S", "\n">>,
     <<"x", ";", "\n">>,
     <<"T", "r", "e", "e", " ", "t", "=", "(", "a", ")", ";", "\n">>,
     <<" ", "t", "r", "e", "e", " ", "a", ";", "\n">>}
Files == UNION {[1..n -> LineSet] : n \in 0..(MaxLines + 1)}

\* Trees a caller builds from Node() and addChild and hands to Tree().
NodeArena(p) ==
    [i \in DOMAIN p |-> [Node EXCEPT !.parent = p[i], !.children = KidsOf(p, i)]]
NodeTrees == UNION {{NodeArena(p) : p \in Shapes(n)} : n \in 1..MaxNodes}

Args ==
    {[kind |-> "str", text |-> s, lines |-> <<>>, nodes |-> <<>>] :
        s \in RawStrings \cup WellFormed \cup Examples}
    \cup {[kind |-> "file", text |-> <<>>, lines |-> f, nodes |-> <<>>] : f \in Files}
    \cup {[kind |-> "node", text |-> <<>>, lines |-> <<>>, nodes |-> t] : t \in NodeTrees}

----------------------------------------------------------------------------
\* Tree.__init__ (lines 111-137).

\* The for loop of lines 130-133 over the lines after the first.
RECURSIVE TreeStatement(_, _)
TreeStatement(lines, i) ==
    IF i > Len(lines) THEN <<>>
    ELSE IF StartsWith(Lower(Strip(lines[i])), <<"t", "r", "e", "e", " ">>)
    THEN Strip(SubSeq(lines[i], Find(lines[i], "=") + 2, Len(lines[i])))
    ELSE TreeStatement(lines, i + 1)

\* newickString for a str or file argument.
NewickString(a) ==
    IF a.kind = "str" THEN Strip(a.text)
    ELSE LET firstLine == IF a.lines = <<>> THEN <<>> ELSE Head(a.lines) IN
         IF StartsWith(Lower(firstLine), <<"#", "n", "e", "x", "u", "s">>)
         THEN TreeStatement(Tail(a.lines), 1)
         ELSE Strip(firstLine)

NoCall == [op |-> "none", increasing |-> FALSE, ret |-> 0]

Init ==
    /\ pc = "init"
    /\ arg \in Args
    /\ string = <<>>
    /\ idx = 0
    /\ tokenList = <<>>
    /\ valueList = <<>>
    /\ ctx = None
    /\ tree = 1
    /\ root = 0
    /\ nodes = <<>>
    /\ origin = None
    /\ err = NoError
    /\ newick = None
    /\ call = NoCall
    /\ built = <<>>
    /\ first = <<>>

\* Tree(arg): a Node is wrapped as it is (lines 116-118); a str or a file
\* gives newickString and enters loadFromString (lines 121-137, 225-227).
TreeInit ==
    /\ pc = "init"
    /\ IF arg.kind = "node"
       THEN /\ nodes' = arg.nodes
            /\ root' = 1
            /\ built' = arg.nodes
            /\ pc' = "ready"
            /\ UNCHANGED <<string, idx, tokenList, valueList>>
       ELSE /\ string' = NewickString(arg)
            /\ idx' = 0
            /\ tokenList' = <<>>
            /\ valueList' = <<>>
            /\ pc' = "lex"
            /\ UNCHANGED <<nodes, root, built>>
    /\ UNCHANGED <<arg, ctx, tree, origin, err, newick, call, first>>

\* One iteration of the tokenizer's while loop (lines 229-256).
LexStep ==
    /\ pc = "lex"
    /\ idx < Len(string)
    /\ LET lx == LexIter(string, [idx |-> idx, tokenList |-> tokenList,
                                  valueList |-> valueList, err |-> NoError])
       IN /\ idx' = lx.idx
          /\ tokenList' = lx.tokenList
          /\ valueList' = lx.valueList
          /\ err' = lx.err
          /\ pc' = IF lx.err # NoError THEN "failed" ELSE "lex"
    /\ UNCHANGED <<arg, string, ctx, tree, root, nodes, origin, newick, call,
                   built, first>>

\* The loop has ended: the parser runs on the token list (lines 317-319).
Parse ==
    /\ pc = "lex"
    /\ idx >= Len(string)
    /\ LET p == ParseTokens(tokenList, valueList)
       IN /\ ctx' = Some(p.idx)
          /\ nodes' = p.nodes
          /\ err' = p.err
          /\ pc' = IF p.err # NoError THEN "failed" ELSE "times"
    /\ UNCHANGED <<arg, string, idx, tokenList, valueList, tree, root, origin,
                   newick, call, built, first>>

\* Times, heights and origin (lines 323-334); __init__ stores the root.
ComputeTimes ==
    /\ pc = "times"
    /\ LET ns == ComputeHeights(nodes)
       IN /\ nodes' = ns
          /\ origin' = Some(Val(ns[1].height) + Val(ns[1].branchLength))
          /\ built' = ns
    /\ root' = 1
    /\ pc' = "ready"
    /\ UNCHANGED <<arg, string, idx, tokenList, valueList, ctx, tree, err,
                   newick, call, first>>

\* tree.sort(increasing)
Sort(increasing) ==
    /\ pc = "ready"
    /\ nodes' = sortSubTree(nodes, root, increasing).ns
    /\ call' = [op |-> "sort", increasing |-> increasing, ret |-> tree]
    /\ UNCHANGED <<pc, arg, string, idx, tokenList, valueList, ctx, tree, root,
                   origin, err, newick, built, first>>

\* tree.root.getNewick()
GetNewick ==
    /\ pc = "ready"
    /\ LET r == getNewick(nodes, root, origin)
       IN /\ newick' = IF r.err = NoError THEN Some(r.text) ELSE None
          /\ err' = r.err
    /\ call' = [op |-> "getNewick", increasing |-> FALSE, ret |-> 0]
    /\ UNCHANGED <<pc, arg, string, idx, tokenList, valueList, ctx, tree, root,
                   nodes, origin, built, first>>

\* The client builds a second Tree from the text getNewick has just
\* returned, as it is or with the ";" that getNewick does not write.
Reload(terminator) ==
    /\ pc = "ready"
    /\ tree = 1
    /\ call.op = "getNewick"
    /\ newick # None
    /\ first' = Some([nodes |-> nodes, root |-> root])
    /\ arg' = [kind |-> "str", text |-> Val(newick) \o terminator,
               lines |-> <<>>, nodes |-> <<>>]
    /\ tree' = 2
    /\ root' = 0
    /\ nodes' = <<>>
    /\ origin' = None
    /\ ctx' = None
    /\ call' = NoCall
    /\ pc' = "init"
    /\ UNCHANGED <<string, idx, tokenList, valueList, err, newick, built>>

Next ==
    \/ TreeInit
    \/ LexStep
    \/ Parse
    \/ ComputeTimes
    \/ \E increasing \in BOOLEAN : Sort(increasing)
    \/ GetNewick
    \/ \E terminator \in {<<>>, <<";">>} : Reload(terminator)

Spec == Init /\ [][Next]_vars

----------------------------------------------------------------------------
\* Vocabulary of the properties.

\* The tree was built by loadFromString and construction has finished.
Parsed == pc = "ready" /\ ctx # None

NodeIds == 1..Len(nodes)

\* m is n or an ancestor of n, by the parent references of arena ns.
RECURSIVE IsAncestorOrSelf(_, _, _)
IsAncestorOrSelf(ns, m, n) ==
    \/ m = n
    \/ ns[n].parent # 0 /\ IsAncestorOrSelf(ns, m, ns[n].parent)

\* The size of the clade of n: n and all its descendants.
CladeSize(ns, n) ==
    Cardinality({m \in 1..Len(ns) : IsAncestorOrSelf(ns, n, m)})

\* The place of x in sequence cs.
PosIn(cs, x) == CHOOSE i \in 1..Len(cs) : cs[i] = x

\* The elements of sequence cs.
Range(cs) == {cs[i] : i \in 1..Len(cs)}

\* The greatest element of a non-empty set of integers.
Greatest(S) == CHOOSE x \in S : \A y \in S : y <= x

\* The subtree of arena a at node i and the subtree of arena b at node j
\* have the same shape and, node for node, the same label, annotations
\* and branch length.
RECURSIVE SameSubtree(_, _, _, _)
SameSubtree(a, i, b, j) ==
    /\ a[i].label = b[j].label
    /\ a[i].annotations = b[j].annotations
    /\ a[i].branchLength = b[j].branchLength
    /\ Len(a[i].children) = Len(b[j].children)
    /\ \A k \in 1..Len(a[i].children) :
          SameSubtree(a, a[i].children[k], b, b[j].children[k])

\* No token rule matches string s at 0-based position i, said of the
\* characters: the one at i is no one-character token and no bare
\* character, it is not "[" before "&", and if it is a quote no later
\* character closes it.
Unmatchable(s, i) ==
    LET c == s[i + 1] IN
    /\ c \notin {"(", ")", ":", "=", "]", ",", ";"}
    /\ c \notin BareChars
    /\ ~(c = "[" /\ i + 2 <= Len(s) /\ s[i + 2] = "&")
    /\ c \in {"\"", "'"} => \A j \in (i + 2)..Len(s) : s[j] # c

\* The file is Nexus-wrapped and no line after the first begins with "tree ".
NexusWithoutTree(lines) ==
    /\ lines # <<>>
    /\ StartsWith(Lower(lines[1]), <<"#", "n", "e", "x", "u", "s">>)
    /\ \A i \in 2..Len(lines) :
          ~StartsWith(Lower(Strip(lines[i])), <<"t", "r", "e", "e", " ">>)

\* Sequence s ends with sequence t.
EndsWith(s, t) ==
    /\ Len(t) <= Len(s)
    /\ SubSeq(s, Len(s) - Len(t) + 1, Len(s)) = t

----------------------------------------------------------------------------
\* C1.  Round trip: whenever the client parses the text that getNewick
\* returned for the root of a parsed tree, the second parse succeeds and
\* its tree has the shape, labels, annotations and branch lengths of the
\* first.
C1_RoundTrip ==
    (tree = 2 /\ arg.text = Val(newick)) =>
        /\ pc # "failed"
        /\ pc = "ready" => SameSubtree(Val(first).nodes, Val(first).root, nodes, root)

\* The same round trip when the client appends the ";" that getNewick does
\* not write.
RoundTripWithTerminator ==
    (tree = 2 /\ arg.text = Val(newick) \o <<";">>) =>
        /\ pc # "failed"
        /\ pc = "ready" => SameSubtree(Val(first).nodes, Val(first).root, nodes, root)

\* C2.  Once the parser has run, either it has built the tree or
\* construction has failed with a ParseError that carries the position of
\* the unexpected token, and no tree was stored.
C2_ParserFailsWithParseError ==
    ctx # None =>
        \/ pc \in {"times", "ready"} /\ (pc = "times" => err = NoError)
        \/ /\ pc = "failed"
           /\ err.kind = "ParseError"
           /\ err.pos = Val(ctx)
           /\ root = 0

\* The heights of a parsed tree are maxTime - time for the greatest time
\* of the tree: none is negative, some node has height 0, and with no
\* negative branch length the root's height is the greatest.
HeightInvariant ==
    LET maxTime == Greatest({Val(nodes[n].time) : n \in NodeIds}) IN
    /\ \A n \in NodeIds : Val(nodes[n].height) = maxTime - Val(nodes[n].time)
    /\ \A n \in NodeIds : Val(nodes[n].height) >= 0
    /\ \E n \in NodeIds : Val(nodes[n].height) = 0
    /\ (\A n \in NodeIds : Val(nodes[n].branchLength) >= 0) =>
          \A n \in NodeIds : Val(nodes[n].height) <= Val(nodes[root].height)

\* C3 as stated.  Every parsed tree, whatever branch lengths the parser
\* accepted, satisfies the height invariant.
C3_HeightInvariantAnyLength == Parsed => HeightInvariant

\* C3 as amended.  Every parsed tree (of finite times) in which some node
\* has a time >= 0, as whenever no branch length is negative, satisfies the
\* height invariant; in every such parsed tree no height is negative.
C3_HeightInvariantSomeTimeNonNegative ==
    Parsed =>
        /\ (\E n \in NodeIds : Val(nodes[n].time) >= 0) => HeightInvariant
        /\ \A n \in NodeIds : Val(nodes[n].height) >= 0

\* A parsed tree of several nodes with a negative branch length, a time
\* >= 0 and two different heights.
C3_Witness ==
    /\ Parsed
    /\ Len(nodes) >= 3
    /\ \E n \in NodeIds : Val(nodes[n].branchLength) < 0
    /\ \E n \in NodeIds : Val(nodes[n].time) >= 0
    /\ \E n, m \in NodeIds : Val(nodes[n].height) > Val(nodes[m].height)

\* C4.  After any number of sort calls on a finished tree, the tree differs
\* from the tree as built in the order of children sequences only: the same
\* nodes, each with the parent, the set of children, the label, the
\* annotations, the branch length, the time and the height it had; one
\* node without parent, every other node exactly once among its parent's
\* children; and a sort call returns the tree it was called on.
C4_SortFrame ==
    pc = "ready" =>
        /\ Len(nodes) = Len(built)
        /\ \A n \in NodeIds :
              /\ nodes[n].parent = built[n].parent
              /\ Range(nodes[n].children) = Range(built[n].children)
              /\ Len(nodes[n].children) = Len(built[n].children)
              /\ nodes[n].label = built[n].label
              /\ nodes[n].annotations = built[n].annotations
              /\ nodes[n].branchLength = built[n].branchLength
              /\ nodes[n].time = built[n].time
              /\ nodes[n].height = built[n].height
        /\ Cardinality({n \in NodeIds : nodes[n].parent = 0}) = 1
        /\ \A n \in NodeIds : nodes[n].parent # 0 =>
              /\ Cardinality({i \in 1..Len(nodes[nodes[n].parent].children) :
                                 nodes[nodes[n].parent].children[i] = n}) = 1
              /\ \A m \in NodeIds \ {nodes[n].parent} :
                    n \notin Range(nodes[m].children)
        /\ call.op = "sort" => call.ret = tree

\* A parsed tree that sort calls have reordered.
C4_Witness ==
    /\ Parsed
    /\ call.op = "sort"
    /\ \E n \in NodeIds : nodes[n].children # built[n].children

\* The children sequence after is the stable ordering of the children
\* sequence before by clade size.
StablySorted(before, after, increasing) ==
    /\ Len(after) = Len(before)
    /\ \A n \in 1..Len(before) :
          LET old == before[n].children
              new == after[n].children
          IN /\ Len(new) = Len(old)
             /\ Range(new) = Range(old)
             /\ \A i, j \in 1..Len(new) : i < j =>
                   LET si == CladeSize(before, new[i])
                       sj == CladeSize(before, new[j])
                   IN /\ increasing => si <= sj
                      /\ ~increasing => si >= sj
                      /\ si = sj => PosIn(old, new[i]) < PosIn(old, new[j])

\* C5.  Each sort(increasing) call leaves every children sequence in the
\* stable order of its previous content by clade size, ascending if
\* increasing and descending if not; and a sort(True) that follows a
\* sort(True) changes nothing.
C5_SortStable ==
    [][(pc = "ready" /\ call'.op = "sort") =>
          /\ StablySorted(nodes, nodes', call'.increasing)
          /\ (call.op = "sort" /\ call.increasing /\ call'.increasing) =>
                nodes' = nodes]_vars

\* A sort has moved a child of a node that also has two children of equal
\* clade size.
C5_Witness ==
    /\ pc = "ready"
    /\ call.op = "sort"
    /\ \E n \in NodeIds :
          /\ nodes[n].children # built[n].children
          /\ \E i, j \in 1..Len(nodes[n].children) :
                /\ i # j
                /\ CladeSize(nodes, nodes[n].children[i])
                      = CladeSize(nodes, nodes[n].children[j])

\* C6.  Construction from a Nexus-wrapped file without a tree statement
\* produces no tree and fails with a SourceFormatError.
C6_NexusWithoutTreeIsSourceFormatError ==
    (arg.kind = "file" /\ NexusWithoutTree(arg.lines)) =>
        /\ pc \notin {"times", "ready"}
        /\ pc = "failed" => err.kind = "SourceFormatError"

\* C7.  An iteration of the tokenizer at a position where no rule matches
\* ends tokenization with the error that names that position and its
\* character, adds no token, and the parser is not run; after that failure
\* nothing changes any more.
C7_LexErrorStops ==
    [][/\ (pc = "lex" /\ idx < Len(string) /\ Unmatchable(string, idx)) =>
             /\ pc' = "failed"
             /\ err'.kind = "ParseError"
             /\ err'.line = 256
             /\ err'.pos = idx
             /\ err'.value = <<string[idx + 1]>>
             /\ tokenList' = tokenList
             /\ valueList' = valueList
             /\ ctx' = None
             /\ root' = 0
       /\ (pc = "failed" /\ ctx = None) => UNCHANGED vars]_vars

\* Tokenization has failed after it had produced tokens.
C7_Witness ==
    /\ pc = "failed"
    /\ err.line = 256
    /\ err.pos > 0
    /\ Len(tokenList) >= 2
    /\ ctx = None

\* C8.  Every STRING token the tokenizer appends has as its value the
\* matched text without its two quotes if the text begins with a quote
\* (the quoted rules), and the matched text itself otherwise.
C8_QuotesStripped ==
    [][(/\ pc = "lex"
        /\ Len(tokenList') = Len(tokenList) + 1
        /\ tokenList'[Len(tokenList')] = "STRING") =>
          LET text == SubSeq(string, idx + 1, idx') IN
          valueList'[Len(valueList')] =
              IF text[1] \in {"\"", "'"}
              THEN Some(SubSeq(text, 2, Len(text) - 1))
              ELSE Some(text)]_vars

\* C9.  getNewick on the root of a tree whose nodes other than the root
\* all have heights returns a text: ending in ":0.0" if the root has no
\* origin, and in ":" and origin - height if it has.
C9_RootBranchLengthWritten ==
    (/\ pc = "ready"
     /\ call.op = "getNewick"
     /\ \A n \in NodeIds \ {root} : nodes[n].height # None) =>
        /\ err = NoError
        /\ newick # None
        /\ origin = None => EndsWith(Val(newick), <<":", "0", ".", "0">>)
        /\ origin # None =>
              EndsWith(Val(newick),
                       <<":">> \o Format(Val(origin) - Val(nodes[root].height)))

\* C10.  When the parser has built a tree, it has consumed every token,
\* and the last one is the ";" of the top level.
C10_AllTokensConsumed ==
    (ctx # None /\ pc \in {"times", "ready"}) =>
        /\ Val(ctx) = Len(tokenList)
        /\ tokenList[Len(tokenList)] = "SEMI"

====
